---- MODULE Spec2Model ----
(***************************************************************************)
(* Model of the stock-cli terminal dashboards: price.py (Upbit ticker      *)
(* table), price_stock.py (yfinance table) and graph.py (ticker table plus *)
(* candle charts).  Each program is a refresh loop                         *)
(*     fetch (one task per symbol, gathered) -> create_table -> update     *)
(*     -> sleep                                                            *)
(* run inside a rich Live surface; the HTTP variants use an aiohttp        *)
(* ClientSession.                                                          *)
(*                                                                         *)
(* Numbers: JSON numbers are modelled as integers.  A price is in whole    *)
(* units, a volume in hundredths, a signed_change_rate in 1/10000 (so that *)
(* rate * 100, shown with two decimals, is the integer itself read as      *)
(* hundredths of a percent).                                               *)
(***************************************************************************)
EXTENDS Integers, Sequences, FiniteSets, TLC

\* ---------------------------------------------------------------- bounds
MaxSymbols == 2
MaxCycles == 2
MaxCandleTasks == 2

SymbolSet == {"KRW-BTC", "KRW-ETH"}

\* ---------------------------------------------------------------- values
\* A Python value as the code inspects it: a number, a string, None, or a key
\* that is missing from the dict.
Num(n) == [t |-> "num", v |-> n, s |-> ""]
Str(x) == [t |-> "str", v |-> 0, s |-> x]
PyNone == [t |-> "none", v |-> 0, s |-> ""]
Absent == [t |-> "absent", v |-> 0, s |-> ""]

\* dict.get(key, default)
Get(x, default) == IF x.t = "absent" THEN default ELSE x

\* ---------------------------------------------------------------- text
\* Text is a sequence of one-character strings.
NA == <<"N", "/", "A">>
KRW == <<" ", "K", "R", "W">>
NoDataText == <<"no data">>

DigitChar(d) == <<"0", "1", "2", "3", "4", "5", "6", "7", "8", "9">>[d + 1]

RECURSIVE Digits(_)
Digits(n) == IF n < 10 THEN <<DigitChar(n)>>
             ELSE Digits(n \div 10) \o <<DigitChar(n % 10)>>

\* The ',' option of the format mini-language: a comma every three digits.
RECURSIVE Grouped(_)
Grouped(n) == IF n < 1000 THEN Digits(n)
              ELSE Grouped(n \div 1000) \o <<",">>
                   \o <<DigitChar((n % 1000) \div 100),
                        DigitChar((n % 100) \div 10),
                        DigitChar(n % 10)>>

Abs(n) == IF n < 0 THEN -n ELSE n
Sign(n) == IF n < 0 THEN <<"-">> ELSE <<>>

\* f"{x:,.0f}" of a whole number x
FormatGrouped0(x) == Sign(x) \o Grouped(Abs(x))

\* f"{x:,.2f}" of a number given in hundredths
FormatGrouped2(h) == Sign(h) \o Grouped(Abs(h) \div 100) \o <<".">>
                     \o <<DigitChar((Abs(h) % 100) \div 10), DigitChar(Abs(h) % 10)>>

\* f"{x:.2f}" of a number given in hundredths
FormatFixed2(h) == Sign(h) \o Digits(Abs(h) \div 100) \o <<".">>
                   \o <<DigitChar((Abs(h) % 100) \div 10), DigitChar(Abs(h) % 10)>>

\* A table cell: the text and the style its markup gives it ("" for none).
Cell(style, text) == [style |-> style, text |-> text]
Plain(text) == Cell("", text)
NACell == Plain(NA)

\* ---------------------------------------------------------------- tickers
\* The outcome of a fetch: None, or a dict.  One field set serves the Upbit
\* ticker (price.py, graph.py) and the snapshot price_stock.py builds.
TickerFields == {"market", "trade_price", "signed_change_rate", "trade_volume",
                 "high_price", "low_price"}
StockFields == {"symbol", "yesterday", "today", "change_rate", "volume", "high", "low"}
AllFields == TickerFields \cup StockFields

NoFields == [k \in AllFields |-> Absent]
NoTicker == [t |-> "None", f |-> NoFields]
Ticker(f) == [t |-> "dict", f |-> f]
Fields(g) == [k \in AllFields |-> IF k \in DOMAIN g THEN g[k] ELSE Absent]

IsNone(r) == r.t = "None"

\* Python truthiness of "if ticker:" / "if data:": None and the empty dict are false.
Truthy(r) == r.t = "dict" /\ \E k \in AllFields : r.f[k].t # "absent"

\* ---------------------------------------------------------------- upstream
\* What the Upbit API can answer to one GET.  kind is what session.get / json()
\* does: it raises aiohttp.ClientError, asyncio.TimeoutError or some other
\* exception, or it delivers an HTTP response with a status and a decoded body.
\* A body is a JSON array (shape "list") or a JSON object (shape "object").
Body(shape, items) == [shape |-> shape, items |-> items]
EmptyBody == Body("list", <<>>)
Response(kind, status, body) == [kind |-> kind, status |-> status, body |-> body]

FailureKinds == {"ClientError", "TimeoutError", "Exception"}
BadStatuses == {404}

GoodTicker(sym) ==
    Ticker(Fields([market |-> Str(sym), trade_price |-> Num(1500),
                   signed_change_rate |-> Num(450), trade_volume |-> Num(1234567),
                   high_price |-> Num(2000), low_price |-> Num(1000)]))
\* "signed_change_rate": null
NullRateTicker(sym) ==
    Ticker(Fields([market |-> Str(sym), trade_price |-> Num(1500),
                   signed_change_rate |-> PyNone, trade_volume |-> Num(1234567),
                   high_price |-> Num(2000), low_price |-> Num(1000)]))
\* {}
EmptyTicker == Ticker(NoFields)

TickerPayloads(sym) == {GoodTicker(sym), NullRateTicker(sym)}

TickerResponses(sym) ==
    {Response(k, 0, EmptyBody) : k \in FailureKinds}
    \cup {Response("http", st, EmptyBody) : st \in BadStatuses}
    \cup {Response("http", 200, EmptyBody)}
    \cup {Response("http", 200, Body("list", <<p>>)) : p \in TickerPayloads(sym)}

\* "if data:" on a decoded body
BodyTruthy(b) == b.items # <<>>

\* What a coroutine call comes to: a returned value, or an exception that
\* leaves it.
Returned(v) == [exc |-> "none", value |-> v]
Raised(e) == [exc |-> e, value |-> NoTicker]

\* The try block of fetch_ticker: data[0] of a JSON object raises KeyError.
TryFetchTicker(resp) ==
    IF resp.kind # "http" THEN Raised(resp.kind)
    ELSE IF resp.status = 200
         THEN IF BodyTruthy(resp.body)
              THEN IF resp.body.shape = "list" THEN Returned(resp.body.items[1])
                   ELSE Raised("Exception")
              ELSE Returned(NoTicker)
         ELSE Returned(NoTicker)

\* Handlers without the final "except Exception".
FetchHandlersSpecific == {"ClientError", "TimeoutError"}

\* The except clauses of fetch_ticker and fetch_candles, in order:
\* aiohttp.ClientError, asyncio.TimeoutError, Exception.
FetchHandlers == {"ClientError", "TimeoutError", "Exception"}

Handle(outcome, none) ==
    IF outcome.exc \in FetchHandlers THEN [exc |-> "none", value |-> none] ELSE outcome

fetch_ticker(resp) == Handle(TryFetchTicker(resp), NoTicker)

\* ---------------------------------------------------------------- candles
\* The outcome of a candle fetch: None, or the decoded list of candles (newest
\* first), each a dict with a trade_price.
NoCandles == [t |-> "None", items |-> <<>>]
Candles(items) == [t |-> "list", items |-> items]
Candle(price) == [trade_price |-> Num(price)]

CandlePayloads == {<<Candle(110), Candle(95), Candle(105), Candle(100)>>}

CandleResponses ==
    {Response(k, 0, EmptyBody) : k \in FailureKinds}
    \cup {Response("http", st, EmptyBody) : st \in BadStatuses}
    \cup {Response("http", 200, EmptyBody)}
    \cup {Response("http", 200, Body("list", c)) : c \in CandlePayloads}

TryFetchCandles(resp) ==
    IF resp.kind # "http" THEN [exc |-> resp.kind, value |-> NoCandles]
    ELSE IF resp.status = 200 /\ BodyTruthy(resp.body)
         THEN Returned(Candles(resp.body.items))
         ELSE Returned(NoCandles)

fetch_candles(resp) == Handle(TryFetchCandles(resp), NoCandles)

\* ---------------------------------------------------------------- stock
\* yfinance's history(period="5d", interval="1d"): it raises, or it returns a
\* frame of daily bars, oldest first.  Prices are in hundredths; a row of the
\* frame is a float64 series, so a division by zero gives inf or nan and does
\* not raise.
Bar(o, c, h, l, v) == [Open |-> o, Close |-> c, High |-> h, Low |-> l, Volume |-> v]
Inf(sign) == [t |-> "inf", v |-> sign, s |-> ""]
NaN == [t |-> "nan", v |-> 0, s |-> ""]

StockHistories ==
    {<<>>,
     <<Bar(9000, 9500, 9600, 8900, 700), Bar(10000, 11000, 11500, 9900, 800)>>,
     <<Bar(0, 500, 600, 0, 10)>>}

StockResponses ==
    {Response("Exception", 0, EmptyBody)}
    \cup {Response("frame", 0, Body("frame", h)) : h \in StockHistories}

\* n / d rounded to the nearest integer, ties to even (d > 0)
RoundDiv(n, d) ==
    LET q == n \div d
        r == n % d
    IN  IF 2 * r < d THEN q
        ELSE IF 2 * r > d THEN q + 1
        ELSE IF q % 2 = 0 THEN q ELSE q + 1

\* ((today - yesterday) / yesterday) * 100 in float64, in hundredths of a percent
ChangeRate(today, yesterday) ==
    IF yesterday = 0
    THEN IF today = 0 THEN NaN ELSE Inf(IF today > 0 THEN 1 ELSE -1)
    ELSE Num(RoundDiv((today - yesterday) * 10000, yesterday))

StockSnapshot(symbol, bars) ==
    LET last_row == bars[Len(bars)]
    IN  Ticker(Fields([symbol |-> Str(symbol),
                       yesterday |-> Num(last_row.Open),
                       today |-> Num(last_row.Close),
                       change_rate |-> ChangeRate(last_row.Close, last_row.Open),
                       volume |-> Num(last_row.Volume),
                       high |-> Num(last_row.High),
                       low |-> Num(last_row.Low)]))

TryFetchStock(symbol, resp) ==
    IF resp.kind # "frame" THEN Raised(resp.kind)
    ELSE IF resp.body.items = <<>> THEN Returned(NoTicker)
    ELSE Returned(StockSnapshot(symbol, resp.body.items))

\* price_stock.py has the single clause "except Exception".
StockHandlers == {"Exception"}

fetch_ticker_stock(symbol, resp) ==
    LET outcome == TryFetchStock(symbol, resp)
    IN  IF outcome.exc \in StockHandlers THEN Returned(NoTicker) ELSE outcome

\* ---------------------------------------------------------------- create_table
\* isinstance(x, (int, float)): JSON numbers, and the float64 values of a frame
IsInstanceNumber(x) == x.t \in {"num", "inf", "nan"}

InfText(x) == IF x.t = "nan" THEN <<"n", "a", "n">>
              ELSE (IF x.v < 0 THEN <<"-">> ELSE <<>>) \o <<"i", "n", "f">>

\* f"{x:,.0f}", f"{x:,.2f}", f"{x:.2f}" of a number, an infinity or a nan
Format0(x) == IF x.t = "num" THEN FormatGrouped0(x.v) ELSE InfText(x)
Format2(x) == IF x.t = "num" THEN FormatGrouped2(x.v) ELSE InfText(x)
FormatRate(x) == IF x.t = "num" THEN FormatFixed2(x.v) ELSE InfText(x)

\* A comparison "change_rate > 0", which styles a zero rate as a fall.
StrictlyPositive(x) == \/ x.t = "num" /\ x.v > 0
                       \/ x.t = "inf" /\ x.v > 0

\* "change_rate >= 0" (false for nan)
NonNegative(x) == \/ x.t = "num" /\ x.v >= 0
                  \/ x.t = "inf" /\ x.v > 0

SymbolText(x) == IF x.t = "str" THEN <<x.s>> ELSE NA

\* A price cell formatted without the ',' option.
PriceCellUngrouped(x) ==
    IF IsInstanceNumber(x)
    THEN Plain((IF x.t = "num" THEN Sign(x.v) \o Digits(Abs(x.v)) ELSE InfText(x)) \o KRW)
    ELSE NACell

\* f"{trade_price:,.0f} KRW" if isinstance(trade_price, (int, float)) else "N/A"
PriceCell(x) == IF IsInstanceNumber(x) THEN Plain(Format0(x) \o KRW) ELSE NACell
\* f"{trade_volume:,.2f}" if isinstance(...) else "N/A"
Amount2Cell(x) == IF IsInstanceNumber(x) THEN Plain(Format2(x)) ELSE NACell
\* f"{volume:,.0f}" if isinstance(...) else "N/A"
Amount0Cell(x) == IF IsInstanceNumber(x) THEN Plain(Format0(x)) ELSE NACell

\* change_color and change_display; the markup [color]..[/color] styles the text.
ChangeCell(rate) ==
    Cell(IF NonNegative(rate) THEN "green dim" ELSE "red dim",
         FormatRate(rate) \o <<"%">>)

\* ticker.get("signed_change_rate", 0.0) * 100: None * 100 raises TypeError, a
\* string times 100 is a string and its comparison with 0 raises TypeError.
RateRaises(rate) == ~IsInstanceNumber(rate)

\* One iteration of the loop over tickers in price.py and graph.py.
PriceRow(ticker) ==
    IF Truthy(ticker)
    THEN LET symbol == Get(ticker.f["market"], Str("N/A"))
             trade_price == Get(ticker.f["trade_price"], Str("N/A"))
             change_rate == Get(ticker.f["signed_change_rate"], Num(0))
             trade_volume == Get(ticker.f["trade_volume"], Num(0))
             high_price == Get(ticker.f["high_price"], Str("N/A"))
             low_price == Get(ticker.f["low_price"], Str("N/A"))
         IN  IF RateRaises(change_rate)
             THEN [exc |-> "TypeError", cells |-> <<>>]
             ELSE [exc |-> "none",
                   cells |-> <<Plain(SymbolText(symbol)), PriceCell(trade_price),
                               ChangeCell(change_rate), Amount2Cell(trade_volume),
                               PriceCell(high_price), PriceCell(low_price)>>]
    ELSE [exc |-> "none", cells |-> <<NACell, NACell, NACell, NACell, NACell, NACell>>]

\* One iteration of the loop over tickers in price_stock.py.
StockRow(ticker) ==
    IF Truthy(ticker)
    THEN LET symbol == Get(ticker.f["symbol"], Str("N/A"))
             yesterday_price == Get(ticker.f["yesterday"], Str("N/A"))
             today_price == Get(ticker.f["today"], Str("N/A"))
             change_rate == Get(ticker.f["change_rate"], Num(0))
             volume == Get(ticker.f["volume"], Num(0))
             high_price == Get(ticker.f["high"], Str("N/A"))
             low_price == Get(ticker.f["low"], Str("N/A"))
         IN  IF RateRaises(change_rate)
             THEN [exc |-> "TypeError", cells |-> <<>>]
             ELSE [exc |-> "none",
                   cells |-> <<Plain(SymbolText(symbol)), Amount2Cell(yesterday_price),
                               Amount2Cell(today_price), ChangeCell(change_rate),
                               Amount0Cell(volume), Amount2Cell(high_price),
                               Amount2Cell(low_price)>>]
    ELSE [exc |-> "none",
          cells |-> <<NACell, NACell, NACell, NACell, NACell, NACell, NACell>>]

Row(v, ticker) == IF v = "stock" THEN StockRow(ticker) ELSE PriceRow(ticker)

\* create_table: the rows in the order of tickers; the first row that raises
\* ends the call, and no table is returned.
create_table(v, tickers) ==
    IF \E i \in 1..Len(tickers) : Row(v, tickers[i]).exc # "none"
    THEN [exc |-> "TypeError", rows |-> <<>>]
    ELSE [exc |-> "none", rows |-> [i \in 1..Len(tickers) |-> Row(v, tickers[i]).cells]]

\* ---------------------------------------------------------------- candle map
\* A Python dict keeps its keys in insertion order: a sequence of (key, value)
\* pairs, one per key.
DictHas(d, k) == \E i \in 1..Len(d) : d[i].k = k
DictGet(d, k) == d[CHOOSE i \in 1..Len(d) : d[i].k = k].v
DictSet(d, k, v) ==
    IF DictHas(d, k)
    THEN [i \in 1..Len(d) |-> IF d[i].k = k THEN [k |-> k, v |-> v] ELSE d[i]]
    ELSE Append(d, [k |-> k, v |-> v])

Timeframe(name, unit, count) == [name |-> name, unit |-> unit, count |-> count]

\* The (symbol, timeframe) pairs in the order fetch_all_candles appends them.
CandleRequests(syms, tfs) ==
    [i \in 1..(Len(syms) * Len(tfs)) |->
        [symbol |-> syms[((i - 1) \div Len(tfs)) + 1],
         timeframe |-> tfs[((i - 1) % Len(tfs)) + 1]]]

\* candle_data[symbol] = {} for each symbol, in order
RECURSIVE EmptyCandleData(_, _)
EmptyCandleData(syms, n) ==
    IF n = 0 THEN <<>> ELSE DictSet(EmptyCandleData(syms, n - 1), syms[n], <<>>)

\* candle_data[symbol][timeframe["name"]] = results[i] for the first n requests
RECURSIVE AssignCandles(_, _, _, _)
AssignCandles(d, reqs, results, n) ==
    IF n = 0 THEN d
    ELSE LET before == AssignCandles(d, reqs, results, n - 1)
             sym == reqs[n].symbol
         IN  DictSet(before, sym,
                     DictSet(DictGet(before, sym), reqs[n].timeframe.name, results[n]))

\* ---------------------------------------------------------------- panels
\* The candles read in the order the API sends them (newest first).
KeepOrder(seq) == seq

Reverse(seq) == [i \in 1..Len(seq) |-> seq[Len(seq) + 1 - i]]

\* create_plotille_line_chart: the placeholder for no prices, else the figure
\* (width 60, height 20) drawn from the prices in the order given.
create_plotille_line_chart(prices) ==
    IF prices = <<>> THEN [kind |-> "text", text |-> NoDataText, prices |-> <<>>]
    ELSE [kind |-> "chart", text |-> <<>>, prices |-> prices]

create_plot_graph_panel(symbol, timeframe, candles) ==
    [title |-> <<symbol, timeframe>>,
     content |-> IF candles.t = "None"
                 THEN [kind |-> "text", text |-> NoDataText, prices |-> <<>>]
                 ELSE create_plotille_line_chart(
                          [i \in 1..Len(candles.items) |->
                              Reverse(candles.items)[i].trade_price.v])]

\* A loop over timeframes that stops after its first panel.
PanelsOfFirst(symbol, tfs) ==
    IF tfs = <<>> THEN <<>>
    ELSE <<create_plot_graph_panel(symbol, tfs[1].k, tfs[1].v)>>

\* The panels of one symbol's timeframes, in the order of the inner dict
PanelsOf(symbol, tfs) ==
    [j \in 1..Len(tfs) |-> create_plot_graph_panel(symbol, tfs[j].k, tfs[j].v)]

RECURSIVE create_graphs_upto(_, _)
create_graphs_upto(candle_data, n) ==
    IF n = 0 THEN <<>>
    ELSE create_graphs_upto(candle_data, n - 1)
         \o PanelsOf(candle_data[n].k, candle_data[n].v)

create_graphs(candle_data) == create_graphs_upto(candle_data, Len(candle_data))

\* The grid run_dashboard builds: one row per panel (columns_per_row = 1), and
\* each graph_layout.split_row(...) replaces the children set by the one before.
GraphLayout(graphs) == IF graphs = <<>> THEN <<>> ELSE <<graphs[Len(graphs)]>>

\* ---------------------------------------------------------------- state
VARIABLES
    variant,          \* which program runs: "price", "stock" or "graph"
    symbols,          \* the configured symbol list
    timeframes,       \* graph.py: the selected timeframes
    update_interval,  \* the configured seconds between cycles
    upstream,         \* the upstream answer to the one call a function-level run studies
    argv,             \* graph.py: the --timeframe values and the config file's timeframes
    pc,               \* where the main coroutine is
    cycle,            \* number of the loop iteration in progress
    tasks,            \* the fetch tasks of the batch being gathered
    tickers_data,     \* local of the loop: what fetch_all_tickers returned
    table,            \* local of the loop: the rows create_table built
    candle_data,      \* graph.py local: what fetch_all_candles returned
    graphs,           \* graph.py local: the panels create_graphs built
    shown,            \* what the Live surface holds to draw
    frame,            \* what the refresh thread of Live drew last
    live,             \* the Live surface: "idle", "started" or "stopped"
    session_open,     \* ClientSessions open now
    sessions_opened,  \* ClientSessions opened so far
    draws,            \* completed updates of the display
    sleeps,           \* calls of asyncio.sleep so far
    sleep_for,        \* argument of the latest asyncio.sleep
    sigint,           \* a Ctrl-C whose cancellation is not yet delivered
    stopped_by,       \* what ended the loop
    stopped_at,       \* where the main coroutine was when the loop ended
    errors_logged     \* logger.error calls of the top-level handler

vars == <<variant, symbols, timeframes, update_interval, upstream, argv, pc, cycle, tasks,
          tickers_data, table, candle_data, graphs, shown, frame, live, session_open,
          sessions_opened, draws, sleeps, sleep_for, sigint, stopped_by, stopped_at,
          errors_logged>>

\* What no step of the loop changes.
config == <<variant, symbols, timeframes, update_interval, upstream, argv>>
locals == <<tickers_data, table, candle_data, graphs>>
counters == <<draws, sleeps, sleep_for>>
sessions == <<session_open, sessions_opened>>
ending == <<stopped_by, stopped_at, errors_logged>>

Variants == {"price", "stock", "graph"}

\* A frame on the terminal: the cycle each region of the drawn display model
\* was updated in.
Frame(s) == [table_cycle |-> s.table_cycle, graphs_cycle |-> s.graphs_cycle,
             footer_cycle |-> s.footer_cycle]
NoFrame == [table_cycle |-> 0, graphs_cycle |-> 0, footer_cycle |-> 0]
\* The update interval when the configuration names none.
DefaultInterval == 10
\* The configured interval of the runs explored: a value other than the default,
\* so that the argument of asyncio.sleep is told from the default.
Intervals == {1}
TimeframeSet == {Timeframe("1H", 60, 60), Timeframe("5M", 5, 60)}

SeqsUpTo(S, n) == UNION {[1..k -> S] : k \in 0..n}

NoResponse == Response("none", 0, EmptyBody)

\* ---------------------------------------------------------------- command line
\* A value of --timeframe after tf.split(":"): the number of parts, and, when
\* there are three, the name and the texts of unit and count.
Flag(name, unit, count) == [parts |-> 3, name |-> name, unit |-> unit, count |-> count]
\* "1H:60"
ShortFlag == [parts |-> 2, name |-> "1H", unit |-> <<"6", "0">>, count |-> <<>>]

\* What cli is given: the --timeframe values, and the "timeframes" entry of the
\* config file (missing, or a list of timeframes).
Args(flags, file) == [timeframe |-> flags, config_timeframes |-> file]
NoConfigEntry == [t |-> "absent", items |-> <<>>]
ConfigEntry(items) == [t |-> "list", items |-> items]
NoArgs == Args(<<>>, NoConfigEntry)

IsDigit(c) == c \in {"0", "1", "2", "3", "4", "5", "6", "7", "8", "9"}
DigitValue(c) == CHOOSE d \in 0..9 : DigitChar(d) = c

RECURSIVE DigitsValue(_)
DigitsValue(text) ==
    IF text = <<>> THEN 0
    ELSE 10 * DigitsValue(SubSeq(text, 1, Len(text) - 1)) + DigitValue(text[Len(text)])

\* int(text): an optional sign and decimal digits, or ValueError.
ParseInt(text) ==
    LET signed == text # <<>> /\ Head(text) \in {"-", "+"}
        body == IF signed THEN Tail(text) ELSE text
    IN  IF body = <<>> \/ \E i \in 1..Len(body) : ~IsDigit(body[i])
        THEN [ok |-> FALSE, value |-> 0]
        ELSE [ok |-> TRUE,
              value |-> IF signed /\ Head(text) = "-" THEN -DigitsValue(body)
                        ELSE DigitsValue(body)]

\* name, unit, count = tf.split(":") with int(unit), int(count): ValueError
\* unless there are three parts and both texts are integers.
FlagParses(flag) ==
    flag.parts = 3 /\ ParseInt(flag.unit).ok /\ ParseInt(flag.count).ok

ParsedTimeframe(flag) ==
    Timeframe(flag.name, ParseInt(flag.unit).value, ParseInt(flag.count).value)

\* DEFAULT_GRAPH_TIMEFRAMES without a config entry: 1H, 15M and 5M, of which
\* the model keeps as many as a batch of one symbol may hold.
BuiltinTimeframes ==
    SubSeq(<<Timeframe("1H", 60, 60), Timeframe("15M", 15, 60), Timeframe("5M", 5, 60)>>,
           1, MaxCandleTasks)

\* config_data.get("timeframes", DEFAULT_GRAPH_TIMEFRAMES), where the default is
\* itself CONFIG.get("timeframes", [...]).
ConfiguredTimeframes(file) == IF file.t = "absent" THEN BuiltinTimeframes ELSE file.items

\* The timeframes cli selects, or its exit on a malformed flag.
SelectTimeframes(args) ==
    IF args.timeframe # <<>>
    THEN IF \A i \in 1..Len(args.timeframe) : FlagParses(args.timeframe[i])
         THEN [exit |-> FALSE,
               timeframes |-> [i \in 1..Len(args.timeframe) |->
                                  ParsedTimeframe(args.timeframe[i])]]
         ELSE [exit |-> TRUE, timeframes |-> <<>>]
    ELSE [exit |-> FALSE, timeframes |-> ConfiguredTimeframes(args.config_timeframes)]

NewTask(symbol, tf, sess, none) ==
    [symbol |-> symbol, timeframe |-> tf, session |-> sess, state |-> "pending",
     result |-> none]

\* Points where the main coroutine is suspended in an await, and the rest,
\* where it runs synchronous code between two awaits.
AwaitPoints == {"gather_tickers", "gather_candles", "sleep"}
SyncPoints == {"fetch_all_tickers", "create_table", "fetch_all_candles",
               "create_graphs", "update", "update_graphs", "update_footer"}

Init ==
    /\ variant \in Variants
    /\ symbols \in SeqsUpTo(SymbolSet, MaxSymbols)
    /\ timeframes \in IF variant = "graph"
                      THEN {t \in SeqsUpTo(TimeframeSet, MaxCandleTasks) :
                               Len(symbols) * Len(t) <= MaxCandleTasks}
                      ELSE {<<>>}
    /\ update_interval \in Intervals
    /\ argv = NoArgs
    /\ upstream = NoResponse
    /\ pc = "start"
    /\ cycle = 0
    /\ tasks = <<>>
    /\ tickers_data = <<>>
    /\ table = <<>>
    /\ candle_data = <<>>
    /\ graphs = <<>>
    /\ shown = [table |-> <<>>, table_cycle |-> 0, graphs |-> <<>>,
                graphs_cycle |-> 0, footer_cycle |-> 0]
    /\ live = "idle"
    /\ session_open = 0
    /\ sessions_opened = 0
    /\ draws = 0
    /\ sleeps = 0
    /\ sleep_for = 0
    /\ sigint = "none"
    /\ stopped_by = "none"
    /\ stopped_at = "none"
    /\ errors_logged = 0
    /\ frame = NoFrame

\* ---------------------------------------------------------------- leaving the loop
\* An exception (or a cancellation) leaves the while loop: the with blocks
\* unwind (Live stops, the session closes), asyncio.run cancels the tasks that
\* are still pending, and the handler under __main__ logs.  The frames of the
\* coroutines are gone with their locals; of a task only its final state is
\* left.
NoResult(task) == IF task.timeframe = "" THEN NoTicker ELSE NoCandles

\* A task whose result has been handed on (or that will never hand one on).
Released(task, state) == [task EXCEPT !.state = state, !.result = NoResult(task)]

\* An exit that leaves the unfinished tasks as they are.
LeavePending(ts) == [i \in 1..Len(ts) |-> Released(ts[i], ts[i].state)]

CancelPending(ts) ==
    [i \in 1..Len(ts) |->
        Released(ts[i], IF ts[i].state = "pending" THEN "cancelled" ELSE ts[i].state)]

\* A Live surface that is not stopped on the way out.
LiveLeftRunning(l) == l

\* The state of the Live surface once its with block is left.
LiveOnExit(l) == "stopped"

\* A top-level handler that logs nothing.
LoggedSilently(cause, n) == n

\* The handlers under __main__: "except Exception" calls logger.error once;
\* "except KeyboardInterrupt" calls logger.info.
LoggedErrors(cause, n) == IF cause = "exception" THEN n + 1 ELSE n

\* A run that ends without closing the session it holds.
SessionsLeftOpen(open) == open

\* Leaving "async with aiohttp.ClientSession(...) as session" closes the
\* session, on an exception and on a cancellation alike.
SessionsOnExit(open) == 0

Exit(cause, ts) ==
    /\ pc' = "Stopped"
    /\ stopped_by' = cause
    /\ stopped_at' = pc
    /\ live' = LiveOnExit(live)
    /\ tasks' = CancelPending(ts)
    /\ tickers_data' = <<>>
    /\ table' = <<>>
    /\ candle_data' = <<>>
    /\ graphs' = <<>>
    /\ session_open' = SessionsOnExit(session_open)
    /\ errors_logged' = LoggedErrors(cause, errors_logged)
    /\ sigint' = "none"
    /\ frame' = IF live = "started" THEN Frame(shown) ELSE frame
    /\ UNCHANGED <<config, counters, cycle, shown, sessions_opened>>

\* ---------------------------------------------------------------- actions
\* Entering the with blocks: graph.py opens its ClientSession, then every
\* variant starts the Live surface.
Start ==
    /\ pc = "start"
    /\ pc' = "fetch_all_tickers"
    /\ live' = "started"
    /\ session_open' = IF variant = "graph" THEN session_open + 1 ELSE session_open
    /\ sessions_opened' = IF variant = "graph" THEN sessions_opened + 1
                          ELSE sessions_opened
    /\ UNCHANGED <<config, frame, locals, counters, cycle, tasks, shown, sigint, ending>>

\* Whether fetch_all_tickers opens a ClientSession of its own (price.py does).
OpensSessionPerBatch(v) == v = "price"

\* The session a fetch task is handed (0: none, the stock variant).
SessionOf(v, opened) == IF v = "stock" THEN 0 ELSE opened

\* A batch that asks twice for every symbol, the second time as a retry.
LaunchedTickersTwice(syms, sess) ==
    [i \in 1..(2 * Len(syms)) |->
        NewTask(syms[((i - 1) % Len(syms)) + 1], "", sess, NoTicker)]

\* fetch_all_tickers up to the await: one coroutine per symbol, all handed to
\* asyncio.gather, which schedules every one of them as a task.
LaunchedTickers(syms, sess) ==
    [i \in 1..Len(syms) |-> NewTask(syms[i], "", sess, NoTicker)]

LaunchTickers ==
    /\ pc = "fetch_all_tickers"
    /\ cycle' = cycle + 1
    /\ sessions_opened' = IF OpensSessionPerBatch(variant) THEN sessions_opened + 1
                          ELSE sessions_opened
    /\ session_open' = IF OpensSessionPerBatch(variant) THEN session_open + 1
                       ELSE session_open
    /\ tasks' = LaunchedTickers(symbols, SessionOf(variant, sessions_opened'))
    /\ pc' = "gather_tickers"
    /\ UNCHANGED <<config, frame, locals, counters, shown, live, sigint, ending>>

\* What one ticker task comes to for an upstream answer.
TickerOutcome(v, symbol, resp) ==
    IF v = "stock" THEN fetch_ticker_stock(symbol, resp) ELSE fetch_ticker(resp)

UpstreamFor(v, symbol) == IF v = "stock" THEN StockResponses ELSE TickerResponses(symbol)

\* A batch in which a task that ends without data cancels its siblings.
FinishFailFast(ts, i, value) ==
    [j \in 1..Len(ts) |->
        IF j = i THEN [ts[j] EXCEPT !.state = "done", !.result = value]
        ELSE IF IsNone(value) /\ ts[j].state = "pending"
             THEN [ts[j] EXCEPT !.state = "cancelled"]
             ELSE ts[j]]

\* The effect on the batch of task i finishing with a value.
Finish(ts, i, value) ==
    [ts EXCEPT ![i] = [@ EXCEPT !.state = "done", !.result = value]]

\* Task i of the batch runs to its end with the outcome given.  An exception
\* that leaves the task leaves gather (return_exceptions=False) and so the loop.
TaskEnds(i, outcome) ==
    /\ sigint = "none"
    /\ i \in 1..Len(tasks)
    /\ tasks[i].state = "pending"
    /\ IF outcome.exc = "none"
       THEN /\ tasks' = Finish(tasks, i, outcome.value)
            /\ UNCHANGED <<config, frame, locals, counters, pc, cycle, shown, live, sessions,
                           sigint, ending>>
       ELSE Exit("exception", Finish(tasks, i, outcome.value))

TickerTaskDone(i) ==
    /\ pc = "gather_tickers"
    /\ i \in 1..Len(tasks)
    /\ \E resp \in UpstreamFor(variant, tasks[i].symbol) :
          TaskEnds(i, TickerOutcome(variant, tasks[i].symbol, resp))

\* A gather that leaves out the fetches that failed.
GatherResultsDropFailed(ts) ==
    LET all == [i \in 1..Len(ts) |-> ts[i].result]
    IN  SelectSeq(all, LAMBDA r : ~IsNone(r))

\* The list asyncio.gather returns: the results in the order of the awaitables.
GatherResults(ts) == [i \in 1..Len(ts) |-> ts[i].result]

\* A gather that returns as soon as one task of the batch is done.
GatherFirstDone(ts) == ts = <<>> \/ \E i \in 1..Len(ts) : ts[i].state = "done"

\* gather is done when every task of the batch is.
GatherReady(ts) == \A i \in 1..Len(ts) : ts[i].state = "done"

\* The tasks once gather has handed their results on.
ReleasedAll(ts) == [i \in 1..Len(ts) |-> Released(ts[i], ts[i].state)]

GatherTickers ==
    /\ pc = "gather_tickers"
    /\ sigint = "none"
    /\ GatherReady(tasks)
    /\ tickers_data' = GatherResults(tasks)
    /\ tasks' = ReleasedAll(tasks)
    /\ session_open' = IF OpensSessionPerBatch(variant) THEN session_open - 1
                       ELSE session_open
    /\ pc' = "create_table"
    /\ UNCHANGED <<config, frame, table, candle_data, graphs, counters, cycle, shown, live,
                   sessions_opened, sigint, ending>>

AfterTable(v) == IF v = "graph" THEN "fetch_all_candles" ELSE "update"

\* A local of the loop is dropped from the state once the loop has read it for
\* the last time (tickers_data after create_table, table after the update, and
\* so on).
CreateTable ==
    /\ pc = "create_table"
    /\ LET built == create_table(variant, tickers_data)
       IN  IF built.exc = "none"
           THEN /\ table' = built.rows
                /\ tickers_data' = <<>>
                /\ pc' = AfterTable(variant)
                /\ UNCHANGED <<config, frame, candle_data, graphs, counters, cycle, tasks,
                               shown, live, sessions, sigint, ending>>
           ELSE Exit("exception", tasks)

\* fetch_all_candles up to the await: one coroutine per (symbol, timeframe).
LaunchedCandles(syms, tfs, sess) ==
    LET reqs == CandleRequests(syms, tfs)
    IN  [i \in 1..Len(reqs) |->
            NewTask(reqs[i].symbol, reqs[i].timeframe.name, sess, NoCandles)]

LaunchCandles ==
    /\ pc = "fetch_all_candles"
    /\ tasks' = LaunchedCandles(symbols, timeframes, SessionOf(variant, sessions_opened))
    /\ pc' = "gather_candles"
    /\ UNCHANGED <<config, frame, locals, counters, cycle, shown, live, sessions, sigint,
                   ending>>

CandleTaskDone(i) ==
    /\ pc = "gather_candles"
    /\ \E resp \in CandleResponses : TaskEnds(i, fetch_candles(resp))

\* The rest of fetch_all_candles: the results are filed under symbol and
\* timeframe name.
fetch_all_candles_result(syms, tfs, results) ==
    LET reqs == CandleRequests(syms, tfs)
    IN  AssignCandles(EmptyCandleData(syms, Len(syms)), reqs, results, Len(reqs))

GatherCandles ==
    /\ pc = "gather_candles"
    /\ sigint = "none"
    /\ GatherReady(tasks)
    /\ candle_data' = fetch_all_candles_result(symbols, timeframes, GatherResults(tasks))
    /\ tasks' = ReleasedAll(tasks)
    /\ pc' = "create_graphs"
    /\ UNCHANGED <<config, frame, tickers_data, table, graphs, counters, cycle, shown, live,
                   sessions, sigint, ending>>

CreateGraphs ==
    /\ pc = "create_graphs"
    /\ graphs' = create_graphs(candle_data)
    /\ candle_data' = <<>>
    /\ pc' = "update"
    /\ UNCHANGED <<config, frame, tickers_data, table, counters, cycle, tasks, shown, live,
                   sessions, sigint, ending>>

\* A sleep of the default interval, whatever is configured.
SleepDefault(interval) == DefaultInterval

\* The argument of the asyncio.sleep that ends a cycle.
SleepArgument(interval) == interval

\* live.update(table) in price.py and price_stock.py, followed by the sleep;
\* layout["upper"]["table"].update(table) in graph.py.
UpdateTable ==
    /\ pc = "update"
    /\ shown' = [shown EXCEPT !.table = table, !.table_cycle = cycle]
    /\ table' = <<>>
    /\ IF variant = "graph"
       THEN /\ pc' = "update_graphs"
            /\ UNCHANGED counters
       ELSE /\ pc' = "sleep"
            /\ draws' = draws + 1
            /\ sleeps' = sleeps + 1
            /\ sleep_for' = SleepArgument(update_interval)
    /\ UNCHANGED <<config, frame, tickers_data, candle_data, graphs, cycle, tasks, live,
                   sessions, sigint, ending>>

\* graph.py: layout["upper"]["graphs"].update(graph_layout)
UpdateGraphs ==
    /\ pc = "update_graphs"
    /\ shown' = [shown EXCEPT !.graphs = GraphLayout(graphs), !.graphs_cycle = cycle]
    /\ graphs' = <<>>
    /\ pc' = "update_footer"
    /\ UNCHANGED <<config, frame, tickers_data, table, candle_data, counters, cycle, tasks,
                   live, sessions, sigint, ending>>

\* graph.py: layout["lower"].update(footer), followed by the sleep
UpdateFooter ==
    /\ pc = "update_footer"
    /\ shown' = [shown EXCEPT !.footer_cycle = cycle]
    /\ pc' = "sleep"
    /\ draws' = draws + 1
    /\ sleeps' = sleeps + 1
    /\ sleep_for' = SleepArgument(update_interval)
    /\ UNCHANGED <<config, frame, locals, cycle, tasks, live, sessions, sigint, ending>>

\* asyncio.sleep returns and the while loop starts its next iteration.
SleepDone ==
    /\ pc = "sleep"
    /\ sigint = "none"
    /\ cycle < MaxCycles
    /\ pc' = "fetch_all_tickers"
    /\ UNCHANGED <<config, frame, locals, counters, cycle, tasks, shown, live, sessions,
                   sigint, ending>>

\* Ctrl-C while the main coroutine is suspended in an await: the main task is
\* cancelled there, which cancels the batch it is gathering.
InterruptAwait ==
    /\ pc \in AwaitPoints
    /\ sigint = "none"
    /\ Exit("interrupt", tasks)

\* Ctrl-C while synchronous code of the loop runs: KeyboardInterrupt is raised
\* in that code (the default handler), or the runner's handler requests the
\* cancellation of the main task, which takes effect at its next await.
InterruptSync ==
    /\ pc \in SyncPoints
    /\ sigint = "none"
    /\ \/ Exit("interrupt", tasks)
       \/ /\ sigint' = "pending"
          /\ UNCHANGED <<config, frame, locals, counters, pc, cycle, tasks, shown, live,
                         sessions, ending>>

\* A requested cancellation reaches the main coroutine at an await.
DeliverCancel ==
    /\ pc \in AwaitPoints
    /\ sigint = "pending"
    /\ Exit("interrupt", tasks)

Next ==
    \/ Start
    \/ LaunchTickers
    \/ \E i \in 1..MaxSymbols : TickerTaskDone(i)
    \/ GatherTickers
    \/ CreateTable
    \/ LaunchCandles
    \/ \E i \in 1..MaxCandleTasks : CandleTaskDone(i)
    \/ GatherCandles
    \/ CreateGraphs
    \/ UpdateTable
    \/ UpdateGraphs
    \/ UpdateFooter
    \/ SleepDone
    \/ InterruptAwait
    \/ InterruptSync
    \/ DeliverCancel

Spec == Init /\ [][Next]_vars

\* ---------------------------------------------------------------- the refresh thread
\* Live(..., refresh_per_second=1) runs a thread of its own that, once a
\* second, renders whatever the display model holds at that moment; it is not
\* synchronised with the statements of the loop.
Refresh ==
    /\ live = "started"
    /\ frame' = Frame(shown)
    /\ frame' # frame
    /\ UNCHANGED <<config, locals, counters, sessions, ending, pc, cycle, tasks, shown,
                   live, sigint>>

NextRender == Next \/ Refresh

SpecRender == Init /\ [][NextRender]_vars

\* ---------------------------------------------------------------- progress
\* The steps the loop takes by itself: once one is possible the event loop
\* runs it.
LoopStep ==
    \/ Start
    \/ LaunchTickers
    \/ GatherTickers
    \/ CreateTable
    \/ LaunchCandles
    \/ GatherCandles
    \/ CreateGraphs
    \/ UpdateTable
    \/ UpdateGraphs
    \/ UpdateFooter
    \/ SleepDone
    \/ DeliverCancel

\* Whether the fetches of a variant run under a timeout: price.py and graph.py
\* give their ClientSession a ClientTimeout(total=10); price_stock.py calls
\* yf.Ticker(symbol).history in a thread and sets none.
HasTimeout(v) == v # "stock"

\* A pending fetch that runs under a timeout ends: with an answer, or with
\* asyncio.TimeoutError and so with None.
TimedTaskDone ==
    /\ HasTimeout(variant)
    /\ \/ \E i \in 1..MaxSymbols : TickerTaskDone(i)
       \/ \E i \in 1..MaxCandleTasks : CandleTaskDone(i)

\* The loop with its scheduling: the loop's own steps are taken, and a fetch
\* under a timeout ends.  Nothing makes a fetch without a timeout end, and
\* nothing makes an interrupt arrive.
SpecLive == Spec /\ WF_vars(LoopStep) /\ WF_vars(TimedTaskDone)

\* ---------------------------------------------------------------- one fetch call
\* A run that studies a single DataSource call: the loop is in its first
\* gather with one task pending, and upstream holds the answer that task gets.
StudyStatuses == {400, 404, 429, 500}

NegativeTicker(sym) ==
    Ticker(Fields([market |-> Str(sym), trade_price |-> Num(1500),
                   signed_change_rate |-> Num(-123), trade_volume |-> Num(1234567),
                   high_price |-> Num(2000), low_price |-> Num(1000)]))

StudyTickerResponses(sym) ==
    TickerResponses(sym)
    \cup {Response("http", st, b) :
            st \in StudyStatuses, b \in {EmptyBody, Body("object", <<EmptyTicker>>)}}
    \cup {Response("http", 200, Body("object", <<GoodTicker(sym)>>)),
          Response("http", 200, Body("list", <<EmptyTicker>>)),
          Response("http", 200, Body("list", <<NegativeTicker(sym)>>)),
          Response("http", 200, Body("list", <<GoodTicker(sym), NegativeTicker(sym)>>))}

StudyCandleResponses ==
    CandleResponses
    \cup {Response("http", st, b) :
            st \in StudyStatuses, b \in {EmptyBody, Body("object", <<EmptyTicker>>)}}
    \cup {Response("http", 200, Body("list", <<Candle(100)>>))}

StudyResponses(v, p, sym) ==
    IF p = "gather_candles" THEN StudyCandleResponses
    ELSE IF v = "stock" THEN StockResponses
    ELSE StudyTickerResponses(sym)

InitFetch ==
    /\ variant \in Variants
    /\ symbols \in {<<sym>> : sym \in SymbolSet}
    /\ pc \in IF variant = "graph" THEN {"gather_tickers", "gather_candles"}
              ELSE {"gather_tickers"}
    /\ timeframes \in IF pc = "gather_candles" THEN {<<tf>> : tf \in TimeframeSet}
                      ELSE {<<>>}
    /\ update_interval \in Intervals
    /\ argv = NoArgs
    /\ upstream \in StudyResponses(variant, pc, symbols[1])
    /\ cycle = 1
    /\ tasks = IF pc = "gather_candles"
               THEN LaunchedCandles(symbols, timeframes, SessionOf(variant, 1))
               ELSE LaunchedTickers(symbols, SessionOf(variant, 1))
    /\ tickers_data = <<>>
    /\ table = IF pc = "gather_candles" THEN <<PriceRow(NoTicker).cells>> ELSE <<>>
    /\ candle_data = <<>>
    /\ graphs = <<>>
    /\ shown = [table |-> <<>>, table_cycle |-> 0, graphs |-> <<>>,
                graphs_cycle |-> 0, footer_cycle |-> 0]
    /\ live = "started"
    /\ session_open = IF variant = "stock" THEN 0 ELSE 1
    /\ sessions_opened = IF variant = "stock" THEN 0 ELSE 1
    /\ draws = 0
    /\ sleeps = 0
    /\ sleep_for = 0
    /\ sigint = "none"
    /\ stopped_by = "none"
    /\ stopped_at = "none"
    /\ errors_logged = 0
    /\ frame = NoFrame

FetchTickerReturns ==
    /\ pc = "gather_tickers"
    /\ TaskEnds(1, TickerOutcome(variant, tasks[1].symbol, upstream))

FetchCandlesReturns ==
    /\ pc = "gather_candles"
    /\ TaskEnds(1, fetch_candles(upstream))

NextFetch == FetchTickerReturns \/ FetchCandlesReturns

SpecFetch == InitFetch /\ [][NextFetch]_vars

\* ---------------------------------------------------------------- one create_table call
\* A run that studies create_table on one present snapshot: the first batch of
\* price.py or graph.py has been gathered, and each field of the snapshot is
\* missing, null, a string or a number.
FieldValues == {Absent, PyNone, Str("abc"), Num(1500), Num(-123), Num(1234567)}
\* 0.045, -0.0123 and 0 among the change rates
RateValues == {Absent, PyNone, Str("abc"), Num(450), Num(-123), Num(0)}

StudyTickers(sym) ==
    {Ticker(Fields([market |-> Str(sym), trade_price |-> p, signed_change_rate |-> r,
                    trade_volume |-> v, high_price |-> h, low_price |-> l])) :
        p \in FieldValues, r \in RateValues, v \in FieldValues,
        h \in FieldValues, l \in FieldValues}

InitTable ==
    /\ variant \in {"price", "graph"}
    /\ symbols \in {<<sym>> : sym \in SymbolSet}
    /\ timeframes = <<>>
    /\ update_interval = DefaultInterval
    /\ argv = NoArgs
    /\ upstream = NoResponse
    /\ pc = "create_table"
    /\ cycle = 1
    /\ tasks = ReleasedAll(Finish(LaunchedTickers(symbols, SessionOf(variant, 1)), 1,
                                  NoTicker))
    /\ tickers_data \in {<<t>> : t \in StudyTickers(symbols[1])}
    /\ table = <<>>
    /\ candle_data = <<>>
    /\ graphs = <<>>
    /\ shown = [table |-> <<>>, table_cycle |-> 0, graphs |-> <<>>,
                graphs_cycle |-> 0, footer_cycle |-> 0]
    /\ live = "started"
    /\ session_open = IF variant = "graph" THEN 1 ELSE 0
    /\ sessions_opened = 1
    /\ draws = 0
    /\ sleeps = 0
    /\ sleep_for = 0
    /\ sigint = "none"
    /\ stopped_by = "none"
    /\ stopped_at = "none"
    /\ errors_logged = 0
    /\ frame = NoFrame

NextTable == CreateTable

SpecTable == InitTable /\ [][NextTable]_vars

\* ---------------------------------------------------------------- one candle batch
\* A run that studies fetch_all_candles and create_graphs: graph.py has built
\* the table of its first cycle and is about to fetch the candles.  The
\* timeframes include two that share the name "1H" (--timeframe 1H:60:60
\* --timeframe 1H:5:60), and the upstream answers include a one-candle series.
StudyTimeframeSet == TimeframeSet \cup {Timeframe("1H", 5, 60)}

InitCandles ==
    /\ variant = "graph"
    /\ symbols \in SeqsUpTo(SymbolSet, MaxSymbols)
    /\ timeframes \in {t \in SeqsUpTo(StudyTimeframeSet, MaxCandleTasks) :
                          Len(symbols) * Len(t) <= MaxCandleTasks}
    /\ update_interval \in Intervals
    /\ argv = NoArgs
    /\ upstream = NoResponse
    /\ pc = "fetch_all_candles"
    /\ cycle = 1
    /\ tasks = [i \in 1..Len(symbols) |->
                  Released(NewTask(symbols[i], "", 1, NoTicker), "done")]
    /\ tickers_data = <<>>
    /\ table = [i \in 1..Len(symbols) |-> PriceRow(NoTicker).cells]
    /\ candle_data = <<>>
    /\ graphs = <<>>
    /\ shown = [table |-> <<>>, table_cycle |-> 0, graphs |-> <<>>,
                graphs_cycle |-> 0, footer_cycle |-> 0]
    /\ live = "started"
    /\ session_open = 1
    /\ sessions_opened = 1
    /\ draws = 0
    /\ sleeps = 0
    /\ sleep_for = 0
    /\ sigint = "none"
    /\ stopped_by = "none"
    /\ stopped_at = "none"
    /\ errors_logged = 0
    /\ frame = NoFrame

StudyCandleTaskDone(i) ==
    /\ pc = "gather_candles"
    /\ \E resp \in StudyCandleResponses : TaskEnds(i, fetch_candles(resp))

NextCandles ==
    \/ LaunchCandles
    \/ \E i \in 1..MaxCandleTasks : StudyCandleTaskDone(i)
    \/ GatherCandles
    \/ CreateGraphs

SpecCandles == InitCandles /\ [][NextCandles]_vars

\* ---------------------------------------------------------------- from cli to the first candle batch
\* A run of graph.py from its command line: cli resolves the timeframes from
\* the --timeframe values or the config file, and run_dashboard goes through
\* its first ticker batch and table up to the launch of the candle fetches.
NumberTexts == {<<"6", "0">>, <<"5">>, <<"0">>, <<"-", "5">>, <<"a", "b", "c">>}

StudyFlags == {Flag("1H", u, c) : u \in NumberTexts, c \in NumberTexts} \cup {ShortFlag}

ConfigEntries ==
    {NoConfigEntry,
     ConfigEntry(<<Timeframe("1H", 60, 60)>>),
     ConfigEntry(<<Timeframe("1H", 0, 60)>>),
     ConfigEntry(<<Timeframe("1H", 60, -1)>>)}

CliInputs ==
    {Args(f, c) : f \in SeqsUpTo(StudyFlags, MaxCandleTasks), c \in ConfigEntries}

InitCli ==
    /\ variant = "graph"
    /\ symbols = <<"KRW-BTC">>
    /\ timeframes = <<>>
    /\ update_interval \in Intervals
    /\ argv \in CliInputs
    /\ upstream = NoResponse
    /\ pc = "cli"
    /\ cycle = 0
    /\ tasks = <<>>
    /\ tickers_data = <<>>
    /\ table = <<>>
    /\ candle_data = <<>>
    /\ graphs = <<>>
    /\ shown = [table |-> <<>>, table_cycle |-> 0, graphs |-> <<>>,
                graphs_cycle |-> 0, footer_cycle |-> 0]
    /\ live = "idle"
    /\ session_open = 0
    /\ sessions_opened = 0
    /\ draws = 0
    /\ sleeps = 0
    /\ sleep_for = 0
    /\ sigint = "none"
    /\ stopped_by = "none"
    /\ stopped_at = "none"
    /\ errors_logged = 0
    /\ frame = NoFrame

\* cli up to asyncio.run: a malformed --timeframe value ends the process with
\* sys.exit(1); otherwise the selected timeframes go to run_dashboard as they
\* are.
Cli ==
    /\ pc = "cli"
    /\ LET selected == SelectTimeframes(argv)
       IN  IF selected.exit
           THEN /\ pc' = "Stopped"
                /\ stopped_by' = "exit"
                /\ stopped_at' = "cli"
                /\ UNCHANGED <<timeframes, errors_logged>>
           ELSE /\ pc' = "start"
                /\ timeframes' = selected.timeframes
                /\ UNCHANGED ending
    /\ UNCHANGED <<variant, symbols, update_interval, upstream, argv, cycle, tasks,
                   locals, shown, frame, live, sessions, counters, sigint>>

NextCli ==
    \/ Cli
    \/ Start
    \/ LaunchTickers
    \/ \E i \in 1..MaxSymbols : TickerTaskDone(i)
    \/ GatherTickers
    \/ CreateTable
    \/ LaunchCandles

SpecCli == InitCli /\ [][NextCli]_vars

\* ---------------------------------------------------------------- properties
Phase(p) ==
    CASE p = "start" -> "Idle"
      [] p \in {"fetch_all_tickers", "gather_tickers", "fetch_all_candles",
                "gather_candles"} -> "Fetching"
      [] p \in {"create_table", "create_graphs"} -> "Presenting"
      [] p \in {"update", "update_graphs", "update_footer"} -> "Drawing"
      [] p = "sleep" -> "Sleeping"
      [] OTHER -> "Stopped"

\* The symbol a snapshot names (its "market", or its "symbol" in the stock variant).
NamedSymbol(r) == IF variant = "stock" THEN r.f["symbol"] ELSE r.f["market"]

\* C1: whatever the symbol list (empty, with repeats), whatever the outcomes of
\* the fetches and the order in which the tasks finish, the list that
\* fetch_all_tickers returns has one element per symbol, and its i-th element
\* is the outcome of the task that was started for symbols[i].
C1_ResultsAlignedWithSymbols ==
    [][(pc = "gather_tickers" /\ pc' = "create_table") =>
          /\ Len(tickers_data') = Len(symbols)
          /\ \A i \in 1..Len(symbols) :
                /\ tasks[i].symbol = symbols[i]
                /\ tickers_data'[i] = tasks[i].result
                /\ NamedSymbol(tickers_data'[i]).t = "str"
                      => NamedSymbol(tickers_data'[i]).s = symbols[i]]_vars

\* A batch of two different symbols whose tasks finished, the first without
\* data and the second with a snapshot, has been gathered.
C1_Witness ==
    /\ pc = "create_table"
    /\ Len(symbols) = 2
    /\ symbols[1] # symbols[2]
    /\ IsNone(tickers_data[1])
    /\ Truthy(tickers_data[2])

\* The failure classes of one DataSource call: the client raises (connection
\* error, timeout, anything else), the status is not 200, or the payload of a
\* 200 answer is empty.
IsFailure(resp) ==
    \/ resp.kind \in FailureKinds
    \/ resp.kind = "http" /\ resp.status # 200
    \/ resp.kind \in {"http", "frame"} /\ resp.body.items = <<>>

AnsweredWithData(resp) ==
    \/ resp.kind = "http" /\ resp.status = 200 /\ resp.body.items # <<>>
    \/ resp.kind = "frame" /\ resp.body.items # <<>>

\* C2: a fetch_ticker or fetch_candles call never lets an exception out; for
\* every failure class it returns None, and what it returns is not None only
\* if the upstream answered with status 200 (a frame, for the stock library)
\* and a payload that is not empty.
C2_FetchContainsFailures ==
    (tasks # <<>> /\ tasks[1].state # "pending") =>
        /\ stopped_by # "exception"
        /\ tasks[1].state = "done"
        /\ IsFailure(upstream) => IsNone(tasks[1].result)
        /\ ~IsNone(tasks[1].result) => AnsweredWithData(upstream)

\* A call whose request timed out has returned None.
C2_Witness ==
    /\ tasks # <<>>
    /\ tasks[1].state = "done"
    /\ upstream.kind = "TimeoutError"
    /\ IsNone(tasks[1].result)
    /\ pc \in {"gather_tickers", "gather_candles"}

GatherPoints == {"gather_tickers", "gather_candles"}

\* No later request of the batch is filed under the same symbol and timeframe name.
LastForKey(ts, i) ==
    \A j \in (i + 1)..Len(ts) :
        ts[j].symbol # ts[i].symbol \/ ts[j].timeframe # ts[i].timeframe

\* C3: every task of a batch is started before the batch is awaited; while the
\* batch is awaited a task that has finished keeps its outcome and no task is
\* cancelled, whatever the outcomes of its siblings (error, timeout, empty
\* payload); and the outcome of each task reaches the result of the batch.
C3_SiblingsIndependent ==
    [][/\ (pc = "fetch_all_tickers" /\ pc' = "gather_tickers") =>
             /\ Len(tasks') = Len(symbols)
             /\ \A i \in 1..Len(tasks') : tasks'[i].state = "pending"
       /\ (pc = "fetch_all_candles" /\ pc' = "gather_candles") =>
             /\ Len(tasks') = Len(symbols) * Len(timeframes)
             /\ \A i \in 1..Len(tasks') : tasks'[i].state = "pending"
       /\ (pc \in GatherPoints /\ pc' = pc) =>
             /\ Len(tasks') = Len(tasks)
             /\ \A i \in 1..Len(tasks) :
                   /\ tasks'[i].state \in {"pending", "done"}
                   /\ tasks[i].state = "done" => tasks'[i] = tasks[i]
       /\ (pc = "gather_tickers" /\ pc' = "create_table") =>
             \A i \in 1..Len(tasks) :
                 tasks[i].state = "done" /\ tickers_data'[i] = tasks[i].result
       /\ (pc = "gather_candles" /\ pc' = "create_graphs") =>
             \A i \in 1..Len(tasks) :
                 /\ tasks[i].state = "done"
                 /\ LastForKey(tasks, i) =>
                       DictGet(DictGet(candle_data', tasks[i].symbol),
                               tasks[i].timeframe) = tasks[i].result]_vars

\* A candle batch of two tasks in which the first ended without data and the
\* second with a series.
C3_Witness ==
    /\ pc = "gather_candles"
    /\ Len(tasks) = 2
    /\ tasks[1].state = "done" /\ IsNone(tasks[1].result)
    /\ tasks[2].state = "done" /\ ~IsNone(tasks[2].result)

AllPlaceholders(row) == \A c \in 1..Len(row) : row[c].text = NA

\* A fetch that brought no data: None, or a record without any field.
YieldedNoData(r) == IsNone(r) \/ \A k \in AllFields : r.f[k].t = "absent"

\* C4: in every cycle create_table hands on a table with one row per
\* configured symbol, in order, whose i-th row is all "N/A" exactly when the
\* fetch for symbol i yielded no data, and the cycle goes on to the draw
\* (nothing but an interrupt ends it there).
C4_RowPerSymbolAndDraw ==
    [][(pc = "create_table" /\ pc' # pc) =>
          \/ pc' = "Stopped" /\ stopped_by' = "interrupt"
          \/ /\ pc' = AfterTable(variant)
             /\ Len(table') = Len(symbols)
             /\ \A i \in 1..Len(symbols) :
                   AllPlaceholders(table'[i]) <=> YieldedNoData(tickers_data[i])]_vars

CycleEdges ==
    {<<"Idle", "Fetching">>, <<"Fetching", "Presenting">>, <<"Presenting", "Drawing">>,
     <<"Drawing", "Sleeping">>, <<"Sleeping", "Fetching">>}

\* What C5 says of a cycle besides the order of its phases: the draw shows the
\* table built in this cycle, one sleep of the configured interval follows
\* each draw and precedes the next fetch, and only an interrupt or an escaping
\* exception stops the loop.
DrawSleepAndStop ==
    /\ (pc = "update" /\ pc' \notin {pc, "Stopped"}) =>
          shown'.table = table /\ shown'.table_cycle = cycle
    /\ (pc' = "sleep" /\ pc # "sleep") =>
          /\ Phase(pc) = "Drawing"
          /\ draws' = draws + 1
          /\ sleeps' = sleeps + 1
          /\ sleep_for' = update_interval
    /\ pc' = pc => sleeps' = sleeps /\ draws' = draws
    /\ (pc = "sleep" /\ pc' = "fetch_all_tickers") =>
          sleeps = cycle /\ draws = cycle /\ sleeps' = sleeps
    /\ (pc' = "Stopped" /\ pc # "Stopped") => stopped_by' \in {"interrupt", "exception"}

\* C5 as claimed: every change of phase follows
\* Fetching -> Presenting -> Drawing -> Sleeping -> Fetching or stops the loop.
C5_FourPhaseCycle ==
    [][/\ Phase(pc') # Phase(pc) =>
             \/ <<Phase(pc), Phase(pc')>> \in CycleEdges
             \/ pc' = "Stopped"
       /\ DrawSleepAndStop]_vars

\* The order of the statements of the loop body, per variant.
ProgramOrder(v) ==
    {<<"start", "fetch_all_tickers">>, <<"fetch_all_tickers", "gather_tickers">>,
     <<"gather_tickers", "create_table">>, <<"sleep", "fetch_all_tickers">>}
    \cup IF v = "graph"
         THEN {<<"create_table", "fetch_all_candles">>,
               <<"fetch_all_candles", "gather_candles">>,
               <<"gather_candles", "create_graphs">>, <<"create_graphs", "update">>,
               <<"update", "update_graphs">>, <<"update_graphs", "update_footer">>,
               <<"update_footer", "sleep">>}
         ELSE {<<"create_table", "update">>, <<"update", "sleep">>}

\* C5 (amended): price.py and price_stock.py follow Fetching -> Presenting ->
\* Drawing -> Sleeping -> Fetching; a cycle of graph.py is Fetching (tickers)
\* -> Presenting (table) -> Fetching (candles) -> Presenting (panels) ->
\* Drawing -> Sleeping.  In every variant the draw comes after the
\* presentation of the cycle, exactly one sleep of the configured interval
\* separates a draw from the next fetch, and the loop stops only by an
\* interrupt or an exception that leaves the loop body.
C5_CycleOrder ==
    [][/\ pc' # pc => \/ <<pc, pc'>> \in ProgramOrder(variant)
                      \/ pc' = "Stopped"
       /\ Phase(pc') # Phase(pc) =>
             \/ <<Phase(pc), Phase(pc')>> \in CycleEdges
             \/ pc' = "Stopped"
             \/ variant = "graph" /\ pc = "create_table" /\ pc' = "fetch_all_candles"
       /\ DrawSleepAndStop]_vars

\* graph.py has gone round twice and sleeps after its second draw.
C5_Witness ==
    /\ variant = "graph"
    /\ pc = "sleep"
    /\ cycle = 2
    /\ sleeps = 2
    /\ draws = 2

\* C6: fetch_all_tickers and fetch_all_candles return only when every task
\* they started has finished: while the loop presents, draws or sleeps, no
\* task is in flight (every task of the last batch is done).
C6_FanInBarrier ==
    Phase(pc) \in {"Presenting", "Drawing", "Sleeping"} =>
        \A i \in 1..Len(tasks) : tasks[i].state = "done"

\* graph.py builds the panels after a candle batch of two tasks.
C6_Witness ==
    /\ pc = "create_graphs"
    /\ Len(tasks) = 2
    /\ \A i \in 1..2 : tasks[i].timeframe # "" /\ tasks[i].state = "done"

\* C7: an interrupt that arrives while the loop sleeps after the draw of cycle
\* k stops the loop there: k draws have been completed and no more are, no
\* fetch of cycle k+1 is started, the Live surface is stopped, and nothing
\* happens after the stop.
C7_InterruptWhileSleeping ==
    [][/\ (pc = "sleep" /\ pc' = "Stopped") =>
             /\ stopped_by' = "interrupt"
             /\ draws = cycle
             /\ draws' = draws
             /\ cycle' = cycle
             /\ sessions_opened' = sessions_opened
             /\ live' = "stopped"
             /\ \A i \in 1..Len(tasks') : tasks'[i].state = "done"
       /\ pc = "Stopped" => UNCHANGED vars]_vars

\* The loop was interrupted in the sleep of its second cycle.
C7_Witness ==
    /\ pc = "Stopped"
    /\ stopped_by = "interrupt"
    /\ stopped_at = "sleep"
    /\ cycle = 2
    /\ draws = 2
    /\ live = "stopped"

InterruptStops == pc' = "Stopped" /\ pc # "Stopped" /\ stopped_by' = "interrupt"

\* C8 as claimed: an interrupt stops the loop only once the phase in progress
\* has completed (no task of the batch being gathered is still unfinished
\* when the loop stops), and the Live surface is then stopped.
C8_StopsAfterPhaseCompletes ==
    [][InterruptStops =>
          /\ \A i \in 1..Len(tasks) : tasks[i].state = "done"
          /\ live' = "stopped"]_vars

\* C8 (amended): an interrupt stops the loop at the await the main coroutine
\* is in, or reaches next, without completing the phase in progress: a batch
\* that is in flight is aborted, its unfinished tasks are cancelled and the
\* finished ones stay finished; once the interrupt has arrived no task
\* finishes and no sleep returns; and the Live surface is stopped and every
\* session closed on the way out.
C8_InterruptAbortsBatch ==
    [][/\ InterruptStops =>
             /\ pc \in AwaitPoints \/ sigint = "none"
             /\ live' = "stopped"
             /\ session_open' = 0
             /\ Len(tasks') = Len(tasks)
             /\ \A i \in 1..Len(tasks) :
                   tasks'[i].state =
                       IF tasks[i].state = "pending" THEN "cancelled" ELSE "done"
       /\ sigint = "pending" =>
             /\ \A i \in 1..Len(tasks) :
                   i <= Len(tasks') /\ tasks[i].state = "pending"
                       => tasks'[i].state # "done"
             /\ pc \in AwaitPoints => pc' = "Stopped"]_vars

\* An interrupt has stopped the loop in the middle of a batch: one task had
\* finished and one was cancelled.
C8_Witness ==
    /\ pc = "Stopped"
    /\ stopped_by = "interrupt"
    /\ stopped_at \in GatherPoints
    /\ live = "stopped"
    /\ \E i, j \in 1..Len(tasks) :
          tasks[i].state = "done" /\ tasks[j].state = "cancelled"

\* C9: in the HTTP variants one ClientSession serves the whole run: at most
\* one is ever opened, it stays open from its opening to the shutdown, and
\* every fetch task uses it.
C9_OneSessionPerRun ==
    variant # "stock" =>
        /\ sessions_opened <= 1
        /\ (sessions_opened >= 1 /\ pc # "Stopped") => session_open = 1
        /\ \A i \in 1..Len(tasks) : tasks[i].session = 1

\* The columns of the Upbit table that show a field of the ticker.
FieldColumns ==
    {<<"trade_price", 2>>, <<"signed_change_rate", 3>>, <<"trade_volume", 4>>,
     <<"high_price", 5>>, <<"low_price", 6>>}

\* C10: create_table does not raise on a present snapshot, whichever of its
\* fields are missing or not numbers, and shows each such field, the change
\* rate and the volume included, as "N/A".
C10_NonNumericShownAsPlaceholder ==
    [][(pc = "create_table" /\ pc' # pc /\ variant # "stock" /\ Len(tickers_data) = 1
        /\ Truthy(tickers_data[1])) =>
          /\ pc' = AfterTable(variant)
          /\ \A fc \in FieldColumns :
                tickers_data[1].f[fc[1]].t # "num" => table'[1][fc[2]] = NACell]_vars

\* The columns of the Upbit table that show a price.
PriceColumns == {<<"trade_price", 2>>, <<"high_price", 5>>, <<"low_price", 6>>}

NotComma(c) == c # ","

\* body is the whole number n written with a comma before every group of
\* three digits, counted from the right, and a leading minus sign if n < 0.
IsGroupingOf(body, n) ==
    LET u == IF n < 0 /\ body # <<>> THEN Tail(body) ELSE body
    IN  /\ n < 0 => (body # <<>> /\ Head(body) = "-")
        /\ SelectSeq(u, NotComma) = Digits(Abs(n))
        /\ \A i \in 1..Len(u) : (u[i] = ",") <=> ((Len(u) - i + 1) % 4 = 0)

\* The single snapshot a create_table call under study is given.
Snapshot == tickers_data[1]

TableCallOnSnapshot ==
    /\ pc = "create_table" /\ pc' # pc
    /\ variant # "stock"
    /\ Len(tickers_data) = 1
    /\ Truthy(Snapshot)

\* C11: on a present snapshot whose change rate is a number, create_table does
\* not raise; a trade_price, high_price or low_price that is missing or not a
\* number is shown as "N/A", and a numeric one as the number with thousands
\* separators followed by " KRW" (1500 as "1,500 KRW", 1234567 as
\* "1,234,567 KRW", -123 as "-123 KRW").
C11_PriceCellPlaceholderOrGrouped ==
    [][(TableCallOnSnapshot /\ Snapshot.f["signed_change_rate"].t = "num") =>
          /\ pc' = AfterTable(variant)
          /\ \A fc \in PriceColumns :
                LET x == Snapshot.f[fc[1]]
                    cell == table'[1][fc[2]]
                    n == Len(cell.text)
                IN  /\ x.t # "num" => cell = NACell
                    /\ x.t = "num" =>
                          /\ cell.style = ""
                          /\ n > 4
                          /\ SubSeq(cell.text, n - 3, n) = <<" ", "K", "R", "W">>
                          /\ IsGroupingOf(SubSeq(cell.text, 1, n - 4), x.v)
                    /\ x = Num(1500) =>
                          cell.text = <<"1", ",", "5", "0", "0", " ", "K", "R", "W">>
                    /\ x = Num(1234567) =>
                          cell.text = <<"1", ",", "2", "3", "4", ",", "5", "6", "7",
                                        " ", "K", "R", "W">>
                    /\ x = Num(-123) =>
                          cell.text = <<"-", "1", "2", "3", " ", "K", "R", "W">>]_vars

\* create_table has returned a row whose trade_price is "N/A" next to a high
\* price of 1,234,567 KRW and a low price of -123 KRW.
C11_Witness ==
    /\ pc = "update"
    /\ Len(table) = 1
    /\ table[1][2] = NACell
    /\ table[1][5] = Plain(<<"1", ",", "2", "3", "4", ",", "5", "6", "7",
                              " ", "K", "R", "W">>)
    /\ table[1][6] = Plain(<<"-", "1", "2", "3", " ", "K", "R", "W">>)

\* C12: for a numeric signed_change_rate r the change cell shows r * 100 with
\* two decimals and a percent sign, in the colour of a rise ("green dim")
\* when r >= 0, zero included, and in the colour of a fall ("red dim") when
\* r < 0: -0.0123 gives "-1.23%" as a fall, 0.045 gives "4.50%" as a rise.
C12_ChangeCellSignAndText ==
    [][(TableCallOnSnapshot /\ Snapshot.f["signed_change_rate"].t = "num") =>
          /\ pc' = AfterTable(variant)
          /\ LET r == Snapshot.f["signed_change_rate"].v
                 cell == table'[1][3]
                 n == Len(cell.text)
             IN  /\ cell.style = IF r >= 0 THEN "green dim" ELSE "red dim"
                 /\ n >= 5
                 /\ cell.text[n] = "%"
                 /\ cell.text[n - 3] = "."
                 /\ r < 0 <=> cell.text[1] = "-"
                 /\ r = -123 => cell = Cell("red dim", <<"-", "1", ".", "2", "3", "%">>)
                 /\ r = 450 => cell = Cell("green dim", <<"4", ".", "5", "0", "%">>)
                 /\ r = 0 => cell = Cell("green dim", <<"0", ".", "0", "0", "%">>)]_vars

\* create_table has returned a row whose change cell is "-1.23%" as a fall.
C12_Witness ==
    /\ pc \in {"update", "fetch_all_candles"}
    /\ Len(table) = 1
    /\ table[1][3] = Cell("red dim", <<"-", "1", ".", "2", "3", "%">>)

\* C13: the mapping fetch_all_candles returns has, for every (symbol,
\* timeframe) request of the batch, an entry under the symbol and the
\* timeframe's name that holds the outcome of that request's fetch, whatever
\* the order of completion, also when a symbol is repeated or two timeframes
\* share a name.
C13_EveryRequestFiled ==
    [][(pc = "gather_candles" /\ pc' = "create_graphs") =>
          LET reqs == CandleRequests(symbols, timeframes)
          IN  \A i \in 1..Len(reqs) :
                 /\ DictHas(candle_data', reqs[i].symbol)
                 /\ LET inner == DictGet(candle_data', reqs[i].symbol)
                    IN  /\ DictHas(inner, reqs[i].timeframe.name)
                        /\ DictGet(inner, reqs[i].timeframe.name) = tasks[i].result]_vars

\* The entries of the series map in the order create_graphs visits them:
\* symbol by symbol, and under a symbol name by name.
RECURSIVE EntriesUpTo(_, _)
EntriesUpTo(cd, n) ==
    IF n = 0 THEN <<>>
    ELSE EntriesUpTo(cd, n - 1)
         \o [j \in 1..Len(cd[n].v) |->
                [symbol |-> cd[n].k, name |-> cd[n].v[j].k, series |-> cd[n].v[j].v]]

Entries(cd) == EntriesUpTo(cd, Len(cd))

ClosingPrices(series) == [i \in 1..Len(series.items) |-> series.items[i].trade_price.v]

\* C16: the prices a chart is drawn from are the trade_price of the upstream
\* candle list (newest first) read in reverse, as many as there are candles:
\* the list [110, 95, 105, 100] is charted as [100, 105, 95, 110].
C16_ChartPricesChronological ==
    [][(pc = "create_graphs" /\ pc' # pc) =>
          LET entries == Entries(candle_data)
          IN  /\ Len(graphs') = Len(entries)
              /\ \A k \in 1..Len(entries) :
                    entries[k].series.t # "None" =>
                       LET c == ClosingPrices(entries[k].series)
                           p == graphs'[k].content.prices
                       IN  /\ Len(p) = Len(c)
                           /\ \A i \in 1..Len(c) : p[i] = c[Len(c) + 1 - i]
                           /\ c = <<110, 95, 105, 100>> => p = <<100, 105, 95, 110>>]_vars

\* create_graphs has drawn a chart from [100, 105, 95, 110].
C16_Witness ==
    /\ pc = "update"
    /\ \E k \in 1..Len(graphs) : graphs[k].content.prices = <<100, 105, 95, 110>>

\* C17: create_graphs returns one panel per (symbol, timeframe name) entry of
\* the series map, in the order of the symbols and under a symbol in the order
\* of the names; the panel is titled with its symbol and name, and its content
\* is the placeholder text exactly when the entry's series is None, and a
\* chart otherwise.
C17_PanelPerEntry ==
    [][(pc = "create_graphs" /\ pc' # pc) =>
          LET entries == Entries(candle_data)
          IN  /\ pc' = "update"
              /\ Len(graphs') = Len(entries)
              /\ \A k \in 1..Len(entries) :
                    /\ graphs'[k].title = <<entries[k].symbol, entries[k].name>>
                    /\ entries[k].series.t = "None" <=>
                          (graphs'[k].content.kind = "text"
                           /\ graphs'[k].content.text = NoDataText)
                    /\ entries[k].series.t # "None" <=>
                          graphs'[k].content.kind = "chart"]_vars

\* create_graphs has returned two panels of one symbol: the placeholder for
\* the first timeframe, a chart for the second.
C17_Witness ==
    /\ pc = "update"
    /\ Len(graphs) = 2
    /\ graphs[1].title[1] = graphs[2].title[1]
    /\ graphs[1].content.kind = "text"
    /\ graphs[2].content.kind = "chart"

\* C14: every fetch is bounded by a timeout, so the loop does not stay in a
\* fetch for ever: once the loop awaits a batch of cycle c, the draw of cycle
\* c follows, unless the run is stopped first.
C14_FetchingLeadsToDrawing ==
    \A c \in 1..MaxCycles :
        (pc \in {"gather_tickers", "gather_candles"} /\ cycle = c)
           ~> ((Phase(pc) = "Drawing" /\ cycle = c) \/ pc = "Stopped")

\* C15: in the stock variant a snapshot whose 'yesterday' is zero or missing
\* raises nothing, its row shows "N/A" in the change-rate cell, and the other
\* cells of the row are formatted from the snapshot.
C15_ZeroYesterdayShowsPlaceholder ==
    [][(pc = "create_table" /\ pc' # pc /\ stopped_by' # "interrupt"
        /\ variant = "stock") =>
          \A i \in 1..Len(tickers_data) :
             (Truthy(tickers_data[i])
              /\ tickers_data[i].f["yesterday"] \in {Num(0), Absent}) =>
                /\ pc' = "update"
                /\ table'[i][4] = NACell
                /\ table'[i][3] = Plain(FormatGrouped2(tickers_data[i].f["today"].v))
                /\ table'[i][5] = Plain(FormatGrouped0(tickers_data[i].f["volume"].v))
                /\ table'[i][6] = Plain(FormatGrouped2(tickers_data[i].f["high"].v))
                /\ table'[i][7] = Plain(FormatGrouped2(tickers_data[i].f["low"].v))]_vars

\* C18: an exception that leaves a cycle is logged once by the top-level
\* handler and ends the run: the Live surface is stopped on the way out, the
\* step that raised completes no draw and no sleep, and nothing happens after
\* the stop (no fetch, draw or sleep, no new cycle).  A run that has not ended
\* by an exception has logged no such error.
C18_EscapingExceptionEndsRun ==
    [][/\ pc # "Stopped"
       /\ (pc' = "Stopped" /\ stopped_by' = "exception") =>
             /\ errors_logged' = 1
             /\ live' = "stopped"
             /\ draws' = draws /\ sleeps' = sleeps /\ cycle' = cycle
             /\ \A i \in 1..Len(tasks') : tasks'[i].state # "pending"
       /\ stopped_by' # "exception" => errors_logged' = 0]_vars

\* The second cycle has ended in create_table with an exception, after the
\* draw of the first.
C18_Witness ==
    /\ pc = "Stopped"
    /\ stopped_by = "exception"
    /\ stopped_at = "create_table"
    /\ cycle = 2
    /\ draws = 1
    /\ errors_logged = 1
    /\ live = "stopped"

\* C19: the snapshot that the stock fetch_ticker returns for a history of two
\* or more daily bars has as 'yesterday' the open of the bar before the most
\* recent one, as 'today' the close of the most recent bar, as high, low and
\* volume those of the most recent bar, and as change_rate
\* (today - yesterday) / yesterday * 100 (here in hundredths of a percent).
C19_StockSnapshotMapping ==
    (/\ variant = "stock"
     /\ Len(tasks) = 1
     /\ tasks[1].state = "done"
     /\ upstream.kind = "frame"
     /\ Len(upstream.body.items) >= 2) =>
        LET bars == upstream.body.items
            last == bars[Len(bars)]
            previous == bars[Len(bars) - 1]
            snapshot == tasks[1].result
        IN  /\ ~IsNone(snapshot)
            /\ snapshot.f["yesterday"] = Num(previous.Open)
            /\ snapshot.f["today"] = Num(last.Close)
            /\ snapshot.f["high"] = Num(last.High)
            /\ snapshot.f["low"] = Num(last.Low)
            /\ snapshot.f["volume"] = Num(last.Volume)
            /\ snapshot.f["change_rate"] =
                  Num(RoundDiv((last.Close - previous.Open) * 10000, previous.Open))

\* C20: every timeframe for which a candle fetch is launched has unit > 0 and
\* count > 0, whether it comes from the built-in defaults, from the config
\* file or from a --timeframe value name:unit:count.
C20_TimeframesPositive ==
    pc = "gather_candles" =>
        LET reqs == CandleRequests(symbols, timeframes)
        IN  /\ Len(tasks) = Len(reqs)
            /\ \A i \in 1..Len(reqs) :
                   reqs[i].timeframe.unit > 0 /\ reqs[i].timeframe.count > 0

\* ------------------------------------------------------------------ C21
\* The step that launches a batch of fetches.
LaunchStep ==
    \/ pc = "fetch_all_tickers" /\ pc' = "gather_tickers"
    \/ pc = "fetch_all_candles" /\ pc' = "gather_candles"

\* One fetch per symbol (per symbol and timeframe for the candles) is launched
\* once in a cycle, and no task is started or started again anywhere else.
OneFetchPerRequest ==
    /\ (pc = "fetch_all_tickers" /\ pc' = "gather_tickers") =>
          /\ cycle' = cycle + 1
          /\ Len(tasks') = Len(symbols)
          /\ \A i \in 1..Len(symbols) :
                tasks'[i].symbol = symbols[i] /\ tasks'[i].state = "pending"
    /\ (pc = "fetch_all_candles" /\ pc' = "gather_candles") =>
          /\ cycle' = cycle
          /\ Len(tasks') = Len(symbols) * Len(timeframes)
          /\ \A s \in 1..Len(symbols), t \in 1..Len(timeframes) :
                LET k == (s - 1) * Len(timeframes) + t
                IN  /\ tasks'[k].symbol = symbols[s]
                    /\ tasks'[k].timeframe = timeframes[t].name
                    /\ tasks'[k].state = "pending"
    /\ (pc' = "fetch_all_tickers" /\ pc # pc') => pc \in {"start", "sleep"}
    /\ (pc' = "fetch_all_candles" /\ pc # pc') => pc = "create_table"
    /\ ~LaunchStep =>
          /\ cycle' = cycle
          /\ \A i \in 1..Len(tasks') :
                tasks'[i].state = "pending" => i <= Len(tasks) /\ tasks'[i] = tasks[i]

\* What is shown is made of the results of the batch just gathered and of
\* nothing else: each row from the result for its symbol, each panel from the
\* candle map of this cycle, and the display takes them over as they are.
ShownFromThisCycle ==
    /\ (pc = "gather_tickers" /\ pc' = "create_table") =>
          \A i \in 1..Len(symbols) : tickers_data'[i] = tasks[i].result
    /\ (pc = "create_table" /\ pc' = AfterTable(variant)) =>
          /\ Len(table') = Len(symbols)
          /\ \A i \in 1..Len(symbols) :
                /\ table'[i] = Row(variant, tickers_data[i]).cells
                /\ AllPlaceholders(table'[i]) <=> YieldedNoData(tickers_data[i])
    /\ (pc = "gather_candles" /\ pc' = "create_graphs") =>
          candle_data' = fetch_all_candles_result(symbols, timeframes,
                                                  GatherResults(tasks))
    /\ (pc = "create_graphs" /\ pc' = "update") =>
          graphs' = create_graphs(candle_data)
    /\ (pc = "update" /\ pc' \notin {pc, "Stopped"}) =>
          shown'.table = table /\ shown'.table_cycle = cycle
    /\ (pc = "update_graphs" /\ pc' = "update_footer") =>
          /\ shown'.graphs_cycle = cycle
          /\ \A k \in 1..Len(shown'.graphs) :
                \E j \in 1..Len(graphs) : shown'.graphs[k] = graphs[j]

\* C21: no retry and no state carried from cycle to cycle: a cycle launches
\* exactly one fetch per configured symbol (per symbol and timeframe for the
\* candles), failed or not, and the row or panel it shows for a symbol is made
\* from this cycle's result for that symbol alone.
C21_OneFetchAndNoCarryOver == [][OneFetchPerRequest /\ ShownFromThisCycle]_vars

\* The fetch for the first symbol failed in cycle 1, whose table (still on
\* display) has the placeholder row for it, and succeeded in cycle 2, whose
\* table has its data and is about to be drawn.
C21_Witness ==
    /\ pc = "update"
    /\ cycle = 2
    /\ shown.table_cycle = 1
    /\ Len(shown.table) >= 1
    /\ AllPlaceholders(shown.table[1])
    /\ Len(table) >= 1
    /\ ~AllPlaceholders(table[1])

\* ------------------------------------------------------------------ C22
\* C22: after the layout update of a cycle the graphs region holds every
\* panel create_graphs produced in that cycle, one per symbol and timeframe,
\* in the order produced; none is dropped or overwritten while the grid is built.
C22_EveryPanelInGrid ==
    [][(pc = "update_graphs" /\ pc' = "update_footer") =>
          /\ Len(shown'.graphs) = Len(graphs)
          /\ \A k \in 1..Len(graphs) : shown'.graphs[k] = graphs[k]]_vars

\* What the grid does hold: the panel produced last, and no other.
LastPanelInGrid ==
    [][(pc = "update_graphs" /\ pc' = "update_footer" /\ graphs # <<>>) =>
          shown'.graphs = <<graphs[Len(graphs)]>>]_vars

\* ------------------------------------------------------------------ C23
\* C23: every frame the renderer draws shows a table, chart panels and a
\* footer of one and the same cycle (in price.py and price_stock.py the frame
\* is the table alone).
C23_FrameOfOneCycle ==
    variant = "graph" =>
        /\ frame.table_cycle = frame.graphs_cycle
        /\ frame.graphs_cycle = frame.footer_cycle

\* What does hold of a frame: its regions are at most one cycle apart, the
\* table never older than the panels and the panels never older than the
\* footer; a frame of price.py or price_stock.py has no other region.
FrameRegionsWithinOneCycle ==
    /\ frame.footer_cycle <= frame.graphs_cycle
    /\ frame.graphs_cycle <= frame.table_cycle
    /\ variant = "graph" => frame.table_cycle <= frame.footer_cycle + 1
    /\ variant # "graph" => frame.graphs_cycle = 0 /\ frame.footer_cycle = 0

\* ------------------------------------------------------------------ C24
\* C24: on every path at most one HTTP session is open at a time, a fetch
\* task that is in flight holds the session that is open then (none in
\* price_stock.py, which has no session), and when the run has ended, by an
\* interrupt or by an exception, no session is open and no task is in flight.
C24_SessionSafety ==
    /\ session_open \in {0, 1}
    /\ session_open <= sessions_opened
    /\ \A i \in 1..Len(tasks) :
          tasks[i].state = "pending" =>
             IF variant = "stock"
             THEN tasks[i].session = 0 /\ sessions_opened = 0
             ELSE /\ session_open = 1
                  /\ tasks[i].session = sessions_opened
    /\ pc = "Stopped" =>
          /\ session_open = 0
          /\ \A i \in 1..Len(tasks) : tasks[i].state # "pending"

\* An interrupt arrived while the fetches of a batch were in flight: the run
\* has ended, a task of the batch was cancelled, and the session that had
\* been opened for it is closed.
C24_Witness ==
    /\ pc = "Stopped"
    /\ stopped_by = "interrupt"
    /\ stopped_at \in GatherPoints
    /\ sessions_opened >= 1
    /\ session_open = 0
    /\ \E i \in 1..Len(tasks) :
          tasks[i].state = "cancelled" /\ tasks[i].session = sessions_opened

====
